---- MODULE Spec2Model ----
(***************************************************************************)
(* A model of the trivia REST backend, backend/flaskr/__init__.py.         *)
(*                                                                         *)
(* The store is shared: the questions table, the categories table and the  *)
(* sequence that assigns question ids.  Requests are dispatched thread per *)
(* request, so each thread of Threads serves one request: it arrives       *)
(* (Receive) and its view runs statement by statement.  A view holds no    *)
(* transaction or lock across its statements, so every statement that      *)
(* goes to the store is a step of its own, and the steps of two requests   *)
(* interleave.  A step is named after the view and the line of its store   *)
(* statement, and takes along the local statements that follow it.         *)
(*                                                                         *)
(* For each thread, reads is the log of the questions table as each of its *)
(* store statements found (or left) it, and wrote the log of its inserts   *)
(* and deletes.  The two logs are only read by the properties.             *)
(*                                                                         *)
(* Encoding of values.  A text is a sequence of one-character strings      *)
(* (<<"a","B">> is "aB", <<>> is "").  A JSON value of a request body, and  *)
(* a query-string argument, is a pair <<tag, payload>>: <<"str", text>>,   *)
(* <<"int", n>>, <<"null", 0>>, and <<"absent", 0>> for a key that is not  *)
(* there.  An optional question in a response is <<>> (JSON null) or       *)
(* <<row>>.                                                                *)
(***************************************************************************)
EXTENDS Integers, Sequences, FiniteSets

VARIABLES questions, categories, nextId, req, pc, local, resp, reads, wrote,
          session

vars ==
    <<questions, categories, nextId, req, pc, local, resp, reads, wrote,
      session>>

store == <<questions, categories, nextId>>

(***************************************************************************)
(* Bounds of the model.                                                    *)
(***************************************************************************)
\* ids 1..SeedMax are the rows a pre-populated questions table may hold
SeedMax == 13
\* ids 1..SmallSeed are the rows of the small pre-populated table
SmallSeed == 4
\* DELETE is tried on ids 1..MaxDeleteId, on the id a concurrent create is
\* given and on an id never assigned
MaxDeleteId == 1
\* page numbers tried: MinPage..MaxPage, MinPage == -NegPages
NegPages == 1
MaxPage == 3
\* previous_questions lists are made of ids 1..MaxPrevId
MaxPrevId == 2
\* the pagination helper alone is run on lists of 0..MaxLen items
MaxLen == 22
\* a quiz session is played on tables of 0..MaxQuizRows rows
MaxQuizRows == 4

(***************************************************************************)
(* JSON values and query arguments.                                        *)
(***************************************************************************)
Absent == <<"absent", 0>>
JNull == <<"null", 0>>
JStr(s) == <<"str", s>>
JInt(n) == <<"int", n>>

\* dict.get(key, default) on the request body
BodyGet(body, key, default) ==
    IF body[key] = Absent THEN default ELSE body[key]

\* Python truth value of a JSON value: None, "" and 0 are falsy
Truthy(v) ==
    CASE v[1] = "str" -> v[2] # <<>>
      [] v[1] = "int" -> v[2] # 0
      [] OTHER -> FALSE

\* request.args.get("page", 1, type=int): the default when the argument is
\* absent or int() rejects it
ArgsGetPage(arg) == IF arg[1] = "int" THEN arg[2] ELSE 1

(***************************************************************************)
(* Python list slicing, seq[start:end].                                    *)
(***************************************************************************)
Min(a, b) == IF a < b THEN a ELSE b
Max(a, b) == IF a > b THEN a ELSE b

\* a slice index: negative indices count from the end, then clamp to 0..n
SliceIndex(i, n) == IF i < 0 THEN Max(0, i + n) ELSE Min(i, n)

PySlice(seq, start, end) ==
    LET s == SliceIndex(start, Len(seq))
        e == SliceIndex(end, Len(seq))
    IN  IF s < e THEN SubSeq(seq, s + 1, e) ELSE <<>>

(***************************************************************************)
(* The store.                                                              *)
(***************************************************************************)
\* Question.format(): the row as a JSON object
format(row) ==
    [id |-> row.id, question |-> row.question, answer |-> row.answer,
     category |-> row.category, difficulty |-> row.difficulty]

RECURSIVE OrderById(_)
\* query.order_by(Question.id).all(): the rows in ascending id order
OrderById(rows) ==
    IF rows = {} THEN <<>>
    ELSE LET first == CHOOSE r \in rows : \A o \in rows : r.id <= o.id
         IN  <<first>> \o OrderById(rows \ {first})

\* Question.insert(): the row gets the sequence's next id
Insert(rows, seq, q, a, c, d) ==
    [rows |-> rows \cup {[id |-> seq, question |-> q, answer |-> a,
                          category |-> c, difficulty |-> d]},
     seq |-> seq + 1,
     id |-> seq]

\* Question.delete()
Delete(rows, row) == rows \ {row}

\* query.filter(Question.id == question_id).one_or_none(): <<>> or <<row>>
OneOrNone(rows) == IF rows = {} THEN <<>> ELSE <<CHOOSE r \in rows : TRUE>>

Lower(c) == CASE c = "A" -> "a" [] c = "B" -> "b" [] OTHER -> c

RECURSIVE LikeMatch(_, _)
\* SQL LIKE on lower-cased operands: % is any run of characters, _ is any
\* one character, anything else is itself
LikeMatch(pattern, text) ==
    IF pattern = <<>> THEN text = <<>>
    ELSE IF Head(pattern) = "%"
         THEN \/ LikeMatch(Tail(pattern), text)
              \/ (text # <<>> /\ LikeMatch(pattern, Tail(text)))
    ELSE IF Head(pattern) = "_"
         THEN text # <<>> /\ LikeMatch(Tail(pattern), Tail(text))
    ELSE /\ text # <<>>
         /\ Lower(Head(pattern)) = Lower(Head(text))
         /\ LikeMatch(Tail(pattern), Tail(text))

\* column.ilike(pattern)
ilike(text, pattern) == LikeMatch(pattern, text)

\* "%{}%".format(search)
SearchPattern(search) == <<"%">> \o search \o <<"%">>

(***************************************************************************)
(* QUESTIONS_PER_PAGE and paginate_questions.                              *)
(***************************************************************************)
QUESTIONS_PER_PAGE == 10

\* paginate_questions with the page taken as zero-based
paginate_zero_based(page_arg, selection) ==
    LET page == ArgsGetPage(page_arg)
        start == page * QUESTIONS_PER_PAGE
        end == start + QUESTIONS_PER_PAGE
        formatted == [i \in 1..Len(selection) |-> format(selection[i])]
    IN  PySlice(formatted, start, end)

paginate_questions(page_arg, selection) ==
    LET page == ArgsGetPage(page_arg)
        start == (page - 1) * QUESTIONS_PER_PAGE
        end == start + QUESTIONS_PER_PAGE
        formatted == [i \in 1..Len(selection) |-> format(selection[i])]
    IN  PySlice(formatted, start, end)

(***************************************************************************)
(* Error handlers and abort().                                             *)
(***************************************************************************)
not_found ==
    [status |-> 404, success |-> FALSE, error |-> 404,
     message |-> "resource not found"]

unprocessable ==
    [status |-> 422, success |-> FALSE, error |-> 422,
     message |-> "unprocessable"]

bad_request ==
    [status |-> 400, success |-> FALSE, error |-> 400,
     message |-> "bad request"]

\* the response Flask builds for an HTTPException that leaves a view
ErrorHandler(code) ==
    CASE code = 404 -> not_found
      [] code = 422 -> unprocessable
      [] code = 400 -> bad_request

\* an except clause that lets the HTTPException of the block through
ExceptReraise(code) == ErrorHandler(code)

\* try: ... abort(code) ... except: abort(422)
ExceptAbort422(code) == ErrorHandler(422)

(***************************************************************************)
(* The statements of the views.                                            *)
(***************************************************************************)
\* {category.id: category.type for category in Category.query.all()}
CategoryMap(cats) ==
    [i \in {c.id : c \in cats} |-> (CHOOSE c \in cats : c.id = i).type]

retrieve_categories(cats) ==
    LET mapping == CategoryMap(cats)
    IN  [status |-> 200, success |-> TRUE, categories |-> mapping,
         total_categories |-> Cardinality(DOMAIN mapping)]

\* the jsonify of retrieve_questions
QuestionsResponse(current_questions, total, mapping) ==
    [status |-> 200, success |-> TRUE, questions |-> current_questions,
     total_questions |-> total, categories |-> mapping,
     current_category |-> 1]

\* the jsonify of delete_question
DeletedResponse(question_id, current_questions, total) ==
    [status |-> 200, success |-> TRUE, deleted |-> question_id,
     questions |-> current_questions, total_questions |-> total]

\* the rows of order_by(Question.id).filter(Question.question.ilike(...))
SearchMatches(rows, search) ==
    OrderById({r \in rows : ilike(r.question, SearchPattern(search[2]))})

\* the jsonify of the search branch of create_question
SearchResponse(current_questions, total) ==
    [status |-> 200, success |-> TRUE, questions |-> current_questions,
     total_questions |-> total]

\* the test of the four fields without the question text
MissingFieldButQuestion(new_question, new_answer, new_category, new_difficulty) ==
    \/ new_answer = JStr(<<>>)
    \/ new_category = JStr(<<>>)
    \/ new_difficulty = JStr(<<>>)

\* the test of the four fields in the create branch
MissingField(new_question, new_answer, new_category, new_difficulty) ==
    \/ new_answer = JStr(<<>>)
    \/ new_category = JStr(<<>>)
    \/ new_difficulty = JStr(<<>>)
    \/ new_question = JStr(<<>>)

\* the jsonify of the create branch with the length of the page as total
CreatedResponsePageLength(question_id, current_questions, rows) ==
    [status |-> 200, success |-> TRUE, created |-> question_id,
     questions |-> current_questions,
     total_questions |-> Len(current_questions)]

\* the jsonify of the create branch; rows is Question.query.all()
CreatedResponse(question_id, current_questions, rows) ==
    [status |-> 200, success |-> TRUE, created |-> question_id,
     questions |-> current_questions,
     total_questions |-> Cardinality(rows)]

\* the rows of order_by(Question.id).filter(Question.category == id)
CategoryMatches(rows, categorie_id) ==
    OrderById({r \in rows : r.category = categorie_id})

\* the jsonify of retrieve_questions_by_category
CategoryResponse(current_questions, total) ==
    [status |-> 200, success |-> TRUE, questions |-> current_questions,
     total_questions |-> total]

\* the ids of a previous_questions list
ListItems(list) == {list[i] : i \in 1..Len(list)}

\* the candidates with the category filter run on the whole table
QuizCandidatesOfTable(rows, body) ==
    LET previous_questions == BodyGet(body, "previous_questions", <<"list", <<>>>>)
        quiz_category == BodyGet(body, "quiz_category", JNull)
        available_questions ==
            {r \in rows : r.id \notin ListItems(previous_questions[2])}
    IN  IF quiz_category # JNull /\ quiz_category[2] # 0
        THEN {r \in rows : r.category = quiz_category[2]}
        ELSE available_questions

\* the questions the quiz may draw from
QuizCandidates(rows, body) ==
    LET previous_questions == BodyGet(body, "previous_questions", <<"list", <<>>>>)
        quiz_category == BodyGet(body, "quiz_category", JNull)
        available_questions ==
            {r \in rows : r.id \notin ListItems(previous_questions[2])}
    IN  IF quiz_category # JNull /\ quiz_category[2] # 0
        THEN {r \in available_questions : r.category = quiz_category[2]}
        ELSE available_questions

\* quizzes answering null while one candidate is left
quizzes_off_by_one(rows, body) ==
    LET candidates == QuizCandidates(rows, body)
    IN  IF Cardinality(candidates) <= 1
        THEN {[status |-> 200, success |-> TRUE, question |-> <<>>]}
        ELSE {[status |-> 200, success |-> TRUE,
               question |-> <<format(random_question)>>] :
                 random_question \in candidates}

\* the set of responses random.choice allows
quizzes(rows, body) ==
    LET candidates == QuizCandidates(rows, body)
    IN  IF Cardinality(candidates) = 0
        THEN {[status |-> 200, success |-> TRUE, question |-> <<>>]}
        ELSE {[status |-> 200, success |-> TRUE,
               question |-> <<format(random_question)>>] :
                 random_question \in candidates}

(***************************************************************************)
(* The stores the service starts on, and the requests tried.               *)
(***************************************************************************)
SeedText(id) ==
    CASE id = 2 -> <<"b">>
      [] id = 3 -> <<"A", "b">>
      [] OTHER -> <<"a", "B">>

\* rows 1..3 are of categories 1..3, the later ones of category 1
SeedCategory(id) == IF id <= 3 THEN id ELSE 1

SeedRow(id) ==
    [id |-> id, question |-> SeedText(id), answer |-> <<"x">>,
     category |-> SeedCategory(id), difficulty |-> 1]

SeedRows(n) == {SeedRow(i) : i \in 1..n}

\* the categories table; no view changes it.  No category 3 exists, and
\* nothing stops a question from naming it.
SeedCategories == {[id |-> 1, type |-> "Science"], [id |-> 2, type |-> "Art"]}

\* the value of ?page=: not there, not a number, or a number
PageArgs ==
    {Absent, JStr(<<"x">>)} \cup {JInt(p) : p \in (0 - NegPages)..MaxPage}

\* SeedMax + 1 and SeedMax + 2 are the ids two creates are given
DeleteIds == (1..MaxDeleteId) \cup {SeedMax + 1, SeedMax + 3}

CategoryIds == 1..3

NoFields ==
    [question |-> Absent, answer |-> Absent, category |-> Absent,
     difficulty |-> Absent]

AllFields ==
    [question |-> JStr(<<"b", "A">>), answer |-> JStr(<<"x">>),
     category |-> JInt(2), difficulty |-> JInt(2)]

WithSearch(fields, term) ==
    [question |-> fields.question, answer |-> fields.answer,
     category |-> fields.category, difficulty |-> fields.difficulty,
     searchTerm |-> term]

\* bodies without searchTerm: every mix of missing, empty and given fields
FieldBodies ==
    [question : {Absent, JStr(<<>>), JStr(<<"b", "A">>)},
     answer : {Absent, JStr(<<>>), JStr(<<"x">>)},
     category : {Absent, JStr(<<>>), JInt(1), JInt(3)},
     difficulty : {Absent, JStr(<<>>), JInt(2)},
     searchTerm : {Absent}]

FalsyTerms == {JNull, JStr(<<>>)}

SearchTerms ==
    {JStr(<<"A">>), JStr(<<"a", "b">>), JStr(<<"b", "b">>), JStr(<<"_">>),
     JStr(<<"%">>)}

QuestionBodies ==
    FieldBodies \cup
    {WithSearch(f, t) : f \in {NoFields, AllFields},
                        t \in FalsyTerms \cup SearchTerms}

RECURSIVE SetToList(_)
\* a JSON list of the ids of a set, lowest first
SetToList(ids) ==
    IF ids = {} THEN <<>>
    ELSE LET low == CHOOSE i \in ids : \A j \in ids : i <= j
         IN  <<low>> \o SetToList(ids \ {low})

JList(l) == <<"list", l>>
JObjId(id) == <<"obj", id>>

QuizCategories == {Absent, JNull} \cup {JObjId(c) : c \in 0..3}

QuizBodies ==
    [previous_questions :
         {Absent} \cup {JList(SetToList(ids)) : ids \in SUBSET (1..MaxPrevId)},
     quiz_category : QuizCategories]

NoRequest == [op |-> "none"]
\* status 0: no response yet; status 1: a plain function returned
NoResponse == [status |-> 0]
NoLocals == [current_questions |-> <<>>]
NoSession ==
    [active |-> FALSE, previous_questions |-> <<>>, quiz_category |-> Absent,
     finished |-> FALSE]

Requests ==
    {[op |-> "GET /categories"]}
    \cup {[op |-> "GET /questions", page |-> page] : page \in PageArgs}
    \cup {[op |-> "DELETE /questions", id |-> id, page |-> page] :
             id \in DeleteIds, page \in PageArgs}
    \cup {[op |-> "POST /questions", body |-> body, page |-> page] :
             body \in QuestionBodies, page \in PageArgs}
    \cup {[op |-> "GET /categories/id/questions", id |-> id, page |-> page] :
             id \in CategoryIds, page \in PageArgs}
    \cup {[op |-> "POST /quizzes", body |-> body] : body \in QuizBodies}

\* the requests that change the store, without ?page
WriterRequests ==
    {[op |-> "DELETE /questions", id |-> id, page |-> Absent] :
         id \in DeleteIds}
    \cup {[op |-> "POST /questions",
           body |-> WithSearch(AllFields, Absent), page |-> Absent]}

\* one request of each route that only reads, without ?page
ReaderRequests ==
    {[op |-> "GET /categories"],
     [op |-> "GET /questions", page |-> Absent],
     [op |-> "POST /questions",
      body |-> WithSearch(NoFields, JStr(<<"A">>)), page |-> Absent],
     [op |-> "GET /categories/id/questions", id |-> 1, page |-> Absent],
     [op |-> "POST /quizzes",
      body |-> [previous_questions |-> JList(<<1>>),
                quiz_category |-> JObjId(1)]]}

\* two requests at a time, each on its own thread: A is any request, B any
\* request that changes the store or one of ReaderRequests
Threads == {"A", "B"}

RequestsOf(t) ==
    IF t = "A" THEN Requests ELSE WriterRequests \cup ReaderRequests

(***************************************************************************)
(* The service.                                                            *)
(***************************************************************************)
Init ==
    /\ questions \in {SeedRows(0), SeedRows(SmallSeed), SeedRows(SeedMax)}
    /\ categories = SeedCategories
    /\ nextId = SeedMax + 1
    /\ req = [t \in Threads |-> NoRequest]
    /\ pc = [t \in Threads |-> "idle"]
    /\ local = [t \in Threads |-> NoLocals]
    /\ resp = [t \in Threads |-> NoResponse]
    /\ reads = [t \in Threads |-> <<>>]
    /\ wrote = [t \in Threads |-> <<>>]
    /\ session = NoSession

\* the view of thread t is at label, serving a request of route op
At(t, op, label) == pc[t] = label /\ req[t].op = op

Goto(t, label) == pc' = [pc EXCEPT ![t] = label] /\ UNCHANGED resp

\* the view returns, or an error handler answers for it
Respond(t, body) ==
    /\ resp' = [resp EXCEPT ![t] = body]
    /\ pc' = [pc EXCEPT ![t] = "done"]

Locals(t, values) == local' = [local EXCEPT ![t] = values]

\* the statement at line went to the questions table and left it as rows
Logged(t, line, rows) ==
    reads' = [reads EXCEPT ![t] = Append(@, [line |-> line, rows |-> rows])]

Receive(t) ==
    /\ pc[t] = "idle"
    /\ \E r \in RequestsOf(t) : req' = [req EXCEPT ![t] = r]
    /\ pc' = [pc EXCEPT ![t] = "start"]
    /\ UNCHANGED <<store, local, resp, reads, wrote, session>>

retrieve_categories_L45(t) ==
    /\ At(t, "GET /categories", "start")
    /\ Respond(t, retrieve_categories(categories))
    /\ UNCHANGED <<store, req, local, reads, wrote, session>>

\* lines 64-65: the rows, and their page
retrieve_questions_L64(t) ==
    /\ At(t, "GET /questions", "start")
    /\ LET selection == OrderById(questions)
       IN  Locals(t, [current_questions |->
                          paginate_questions(req[t].page, selection)])
    /\ Logged(t, 64, questions)
    /\ Goto(t, "L66")
    /\ UNCHANGED <<store, req, wrote, session>>

\* lines 66-70: the categories, and abort(404) on an empty page
retrieve_questions_L66(t) ==
    /\ At(t, "GET /questions", "L66")
    /\ IF Len(local[t].current_questions) = 0
       THEN Respond(t, ErrorHandler(404)) /\ UNCHANGED local
       ELSE /\ Locals(t, [current_questions |-> local[t].current_questions,
                          categories |-> CategoryMap(categories)])
            /\ Goto(t, "L76")
    /\ UNCHANGED <<store, req, reads, wrote, session>>

\* lines 72-80: the count, and the response
retrieve_questions_L76(t) ==
    /\ At(t, "GET /questions", "L76")
    /\ Respond(t, QuestionsResponse(local[t].current_questions,
                                    Cardinality(questions),
                                    local[t].categories))
    /\ Logged(t, 76, questions)
    /\ UNCHANGED <<store, req, local, wrote, session>>

\* lines 88-91: the lookup; abort(404) is caught by the except of line 106
delete_question_L88(t) ==
    /\ At(t, "DELETE /questions", "start")
    /\ LET question == OneOrNone({r \in questions : r.id = req[t].id})
       IN  IF question = <<>>
           THEN Respond(t, ExceptAbort422(404)) /\ UNCHANGED local
           ELSE Locals(t, [question |-> question[1]]) /\ Goto(t, "L93")
    /\ Logged(t, 88, questions)
    /\ UNCHANGED <<store, req, wrote, session>>

\* line 93: the delete; a row another request has deleted since the lookup
\* is deleted again without an error
delete_question_L93(t) ==
    /\ At(t, "DELETE /questions", "L93")
    /\ questions' = Delete(questions, local[t].question)
    /\ wrote' = [wrote EXCEPT ![t] =
                     Append(@, [kind |-> "delete", row |-> local[t].question,
                                before |-> questions])]
    /\ Logged(t, 93, questions')
    /\ Goto(t, "L94")
    /\ UNCHANGED <<categories, nextId, req, local, session>>

\* lines 94-95: the rows that are left, and their page
delete_question_L94(t) ==
    /\ At(t, "DELETE /questions", "L94")
    /\ LET selection == OrderById(questions)
       IN  Locals(t, [question |-> local[t].question,
                      current_questions |->
                          paginate_questions(req[t].page, selection)])
    /\ Logged(t, 94, questions)
    /\ Goto(t, "L102")
    /\ UNCHANGED <<store, req, wrote, session>>

\* lines 97-104: the count, and the response
delete_question_L102(t) ==
    /\ At(t, "DELETE /questions", "L102")
    /\ Respond(t, DeletedResponse(req[t].id, local[t].current_questions,
                                  Cardinality(questions)))
    /\ Logged(t, 102, questions)
    /\ UNCHANGED <<store, req, local, wrote, session>>

new_question(t) == BodyGet(req[t].body, "question", JStr(<<>>))
new_answer(t) == BodyGet(req[t].body, "answer", JStr(<<>>))
new_category(t) == BodyGet(req[t].body, "category", JStr(<<>>))
new_difficulty(t) == BodyGet(req[t].body, "difficulty", JStr(<<>>))
search(t) == BodyGet(req[t].body, "searchTerm", JNull)

\* lines 128-132: the search branch; paginate_questions runs the query
create_question_L132(t) ==
    /\ At(t, "POST /questions", "start")
    /\ Truthy(search(t))
    /\ LET selection == SearchMatches(questions, search(t))
       IN  Locals(t, [current_questions |->
                          paginate_questions(req[t].page, selection)])
    /\ Logged(t, 132, questions)
    /\ Goto(t, "L138")
    /\ UNCHANGED <<store, req, wrote, session>>

\* lines 134-140: selection.all() runs the query again for the count
create_question_L138(t) ==
    /\ At(t, "POST /questions", "L138")
    /\ Respond(t, SearchResponse(local[t].current_questions,
                                 Len(SearchMatches(questions, search(t)))))
    /\ Logged(t, 138, questions)
    /\ UNCHANGED <<store, req, local, wrote, session>>

\* lines 143-145: abort(422), caught by the except of line 163
create_question_L145(t) ==
    /\ At(t, "POST /questions", "start")
    /\ ~Truthy(search(t))
    /\ MissingField(new_question(t), new_answer(t), new_category(t),
                    new_difficulty(t))
    /\ Respond(t, ExceptAbort422(422))
    /\ UNCHANGED <<store, req, local, reads, wrote, session>>

\* lines 147-149: the insert
create_question_L149(t) ==
    /\ At(t, "POST /questions", "start")
    /\ ~Truthy(search(t))
    /\ ~MissingField(new_question(t), new_answer(t), new_category(t),
                     new_difficulty(t))
    /\ LET ins == Insert(questions, nextId, new_question(t)[2],
                         new_answer(t)[2], new_category(t)[2],
                         new_difficulty(t)[2])
       IN  /\ questions' = ins.rows
           /\ nextId' = ins.seq
           /\ Locals(t, [question_id |-> ins.id])
           /\ wrote' = [wrote EXCEPT ![t] =
                            Append(@, [kind |-> "insert",
                                       row |-> CHOOSE r \in ins.rows :
                                                   r.id = ins.id,
                                       before |-> questions])]
    /\ Logged(t, 149, questions')
    /\ Goto(t, "L151")
    /\ UNCHANGED <<categories, req, session>>

\* lines 151-152: the rows after the insert, and their page
create_question_L151(t) ==
    /\ At(t, "POST /questions", "L151")
    /\ LET selection == OrderById(questions)
       IN  Locals(t, [question_id |-> local[t].question_id,
                      current_questions |->
                          paginate_questions(req[t].page, selection)])
    /\ Logged(t, 151, questions)
    /\ Goto(t, "L159")
    /\ UNCHANGED <<store, req, wrote, session>>

\* lines 154-161: the count, and the response
create_question_L159(t) ==
    /\ At(t, "POST /questions", "L159")
    /\ Respond(t, CreatedResponse(local[t].question_id,
                                  local[t].current_questions, questions))
    /\ Logged(t, 159, questions)
    /\ UNCHANGED <<store, req, local, wrote, session>>

\* lines 171-173: the category, or abort(404)
retrieve_questions_by_category_L171(t) ==
    /\ At(t, "GET /categories/id/questions", "start")
    /\ LET category == OneOrNone({c \in categories : c.id = req[t].id})
       IN  IF category = <<>>
           THEN Respond(t, ErrorHandler(404))
           ELSE Goto(t, "L178")
    /\ UNCHANGED <<store, req, local, reads, wrote, session>>

\* lines 175-178: paginate_questions runs the query
retrieve_questions_by_category_L178(t) ==
    /\ At(t, "GET /categories/id/questions", "L178")
    /\ LET selection == CategoryMatches(questions, req[t].id)
       IN  Locals(t, [current_questions |->
                          paginate_questions(req[t].page, selection)])
    /\ Logged(t, 178, questions)
    /\ Goto(t, "L184")
    /\ UNCHANGED <<store, req, wrote, session>>

\* lines 180-186: selection.all() runs the query again for the count
retrieve_questions_by_category_L184(t) ==
    /\ At(t, "GET /categories/id/questions", "L184")
    /\ Respond(t, CategoryResponse(local[t].current_questions,
                                   Len(CategoryMatches(questions,
                                                       req[t].id))))
    /\ Logged(t, 184, questions)
    /\ UNCHANGED <<store, req, local, wrote, session>>

\* lines 196-229: one query, then the draw
quizzes_L202(t) ==
    /\ At(t, "POST /quizzes", "start")
    /\ \E r \in quizzes(questions, req[t].body) : Respond(t, r)
    /\ Logged(t, 202, questions)
    /\ UNCHANGED <<store, req, local, wrote, session>>

Next ==
    \E t \in Threads :
        \/ Receive(t)
        \/ retrieve_categories_L45(t)
        \/ retrieve_questions_L64(t)
        \/ retrieve_questions_L66(t)
        \/ retrieve_questions_L76(t)
        \/ delete_question_L88(t)
        \/ delete_question_L93(t)
        \/ delete_question_L94(t)
        \/ delete_question_L102(t)
        \/ create_question_L132(t)
        \/ create_question_L138(t)
        \/ create_question_L145(t)
        \/ create_question_L149(t)
        \/ create_question_L151(t)
        \/ create_question_L159(t)
        \/ retrieve_questions_by_category_L171(t)
        \/ retrieve_questions_by_category_L178(t)
        \/ retrieve_questions_by_category_L184(t)
        \/ quizzes_L202(t)

Spec == Init /\ [][Next]_vars

(***************************************************************************)
(* The pagination helper on its own: Init draws a page argument and a      *)
(* list, Paginate applies the helper.  One caller, on thread Caller.       *)
(***************************************************************************)
Caller == "A"

\* thread Caller holds value, the other threads hold idle
OfCaller(value, idle) == [t \in Threads |-> IF t = Caller THEN value ELSE idle]

SeedList(n) == [i \in 1..n |-> SeedRow(i)]

Reverse(list) == [i \in 1..Len(list) |-> list[Len(list) + 1 - i]]

PaginateArgs ==
    {Absent, JStr(<<"x">>)}
    \cup {JInt(p) : p \in (0 - NegPages - 1)..(MaxPage + 1)}

PaginateLists ==
    {SeedList(n) : n \in 0..MaxLen} \cup {Reverse(SeedList(n)) : n \in 0..MaxLen}

InitPaginate ==
    /\ questions = {}
    /\ categories = SeedCategories
    /\ nextId = 1
    /\ req \in {OfCaller([op |-> "paginate_questions", page |-> a,
                          selection |-> l], NoRequest) :
                   a \in PaginateArgs, l \in PaginateLists}
    /\ pc = OfCaller("start", "idle")
    /\ local = [t \in Threads |-> NoLocals]
    /\ resp = [t \in Threads |-> NoResponse]
    /\ reads = [t \in Threads |-> <<>>]
    /\ wrote = [t \in Threads |-> <<>>]
    /\ session = NoSession

Paginate ==
    /\ At(Caller, "paginate_questions", "start")
    /\ Respond(Caller,
               [status |-> 1,
                current_questions |->
                    paginate_questions(req[Caller].page,
                                       req[Caller].selection)])
    /\ UNCHANGED <<store, req, local, reads, wrote, session>>

NextPaginate == Paginate

SpecPaginate == InitPaginate /\ [][NextPaginate]_vars

(***************************************************************************)
(* A quiz session: the client posts its previous_questions and its         *)
(* category selector, appends the id of the question it is given and posts *)
(* again, until it is given null.  The store does not change, and each     *)
(* request of the session is answered before the next is posted.           *)
(***************************************************************************)
SessionBody ==
    [previous_questions |-> JList(session.previous_questions),
     quiz_category |-> session.quiz_category]

InitQuiz ==
    /\ questions \in {SeedRows(n) : n \in 0..MaxQuizRows}
    /\ categories = SeedCategories
    /\ nextId = SeedMax + 1
    /\ req = [t \in Threads |-> NoRequest]
    /\ pc = [t \in Threads |-> "idle"]
    /\ local = [t \in Threads |-> NoLocals]
    /\ resp = [t \in Threads |-> NoResponse]
    /\ reads = [t \in Threads |-> <<>>]
    /\ wrote = [t \in Threads |-> <<>>]
    /\ session \in [active : {TRUE}, previous_questions : {<<>>},
                    quiz_category : QuizCategories, finished : {FALSE}]

\* the request of the session and its response
Posted(r) ==
    /\ req' = [req EXCEPT ![Caller] =
                   [op |-> "POST /quizzes", body |-> SessionBody]]
    /\ Respond(Caller, r)
    /\ reads' = [reads EXCEPT ![Caller] =
                     <<[line |-> 202, rows |-> questions]>>]

\* a question comes back: the client adds its id to previous_questions
QuizAsk ==
    /\ session.active /\ ~session.finished
    /\ \E r \in quizzes(questions, SessionBody) :
           /\ r.question # <<>>
           /\ Posted(r)
           /\ session' = [session EXCEPT !.previous_questions =
                                             Append(@, r.question[1].id)]
    /\ UNCHANGED <<store, local, wrote>>

\* null comes back: the session is over
QuizEnd ==
    /\ session.active /\ ~session.finished
    /\ \E r \in quizzes(questions, SessionBody) :
           /\ r.question = <<>>
           /\ Posted(r)
           /\ session' = [session EXCEPT !.finished = TRUE]
    /\ UNCHANGED <<store, local, wrote>>

NextQuiz == QuizAsk \/ QuizEnd

\* the client goes on posting until it is given null
SpecQuiz == InitQuiz /\ [][NextQuiz]_vars /\ WF_vars(NextQuiz)

(***************************************************************************)
(* What the properties below are stated with.                              *)
(***************************************************************************)
\* the page number of a page argument: 1 when absent or not a number
PageNumber(arg) == IF arg[1] = "int" THEN arg[2] ELSE 1

\* page p of a list: its items at zero-based offsets (p-1)*10 .. (p-1)*10+9,
\* clipped to the list
RequestedPage(list, p) ==
    LET lo == Max((p - 1) * 10, 0)
        hi == Min((p - 1) * 10 + 9, Len(list) - 1)
    IN  IF lo <= hi THEN SubSeq(list, lo + 1, hi + 1) ELSE <<>>

Formatted(list) == [i \in 1..Len(list) |-> format(list[i])]

Ids(rows) == {r.id : r \in rows}

AscendingIds(list) ==
    \A i, j \in 1..Len(list) : i < j => list[i].id < list[j].id

\* a body field that is given: there, and not the empty string
Given(v) == v # Absent /\ v # JStr(<<>>)

\* a searchTerm that is absent, null or the empty string
NoSearchTerm(body) == body.searchTerm \in {Absent, JNull, JStr(<<>>)}

\* thread t has answered a request of route op
Served(t, op) == req[t].op = op /\ pc[t] = "done"

\* the questions table as the statement at line of thread t's view found
\* it, or left it when the statement is a write
ReadAt(t, line) ==
    (CHOOSE e \in {reads[t][i] : i \in DOMAIN reads[t]} : e.line = line).rows

Paginated == Served(Caller, "paginate_questions")

Envelope404 ==
    [status |-> 404, success |-> FALSE, error |-> 404,
     message |-> "resource not found"]

Envelope422 ==
    [status |-> 422, success |-> FALSE, error |-> 422,
     message |-> "unprocessable"]

(***************************************************************************)
(* Properties.  A view holds no transaction, so "the stored questions" of  *)
(* a response are the table as the statement that read them found it, and  *)
(* "the store is unchanged" says that the request itself wrote nothing.    *)
(***************************************************************************)
\* C1: for a list of length L and a page number p >= 1 (1 when the page
\* argument is absent or not a number) paginate_questions returns
\* min(10, max(0, L-(p-1)*10)) items, and they are the items at zero-based
\* offsets (p-1)*10 .. (p-1)*10+9 of the list, in the same order.
C1_PageSlice ==
    (Paginated /\ PageNumber(req[Caller].page) >= 1) =>
        LET p == PageNumber(req[Caller].page)
            L == Len(req[Caller].selection)
            out == resp[Caller].current_questions
        IN  /\ Len(out) = Min(10, Max(0, L - (p - 1) * 10))
            /\ \A k \in 1..Len(out) :
                   out[k] = format(req[Caller].selection[(p - 1) * 10 + k])

\* C1 witness: page 2 of a list of 13 has been computed and has 3 items
C1_Witness ==
    /\ Paginated
    /\ req[Caller].page = JInt(2)
    /\ Len(req[Caller].selection) = 13
    /\ Len(resp[Caller].current_questions) = 3

\* the list has no item on the page of the call
OutOfRange ==
    RequestedPage(req[Caller].selection, PageNumber(req[Caller].page)) = <<>>

\* C8: for every integer page number p, whenever the list has no item at
\* zero-based offsets (p-1)*10 .. (p-1)*10+9, paginate_questions returns the
\* empty slice.
C8_OutOfRangeIsEmpty ==
    (Paginated /\ OutOfRange) => resp[Caller].current_questions = <<>>

\* C8, for the pages where it holds: p >= 0, and p < 0 on lists of at most
\* 10 items
C8_OutOfRangeIsEmptyFromZero ==
    (/\ Paginated
     /\ OutOfRange
     /\ (PageNumber(req[Caller].page) >= 0 \/ Len(req[Caller].selection) <= 10))
        => resp[Caller].current_questions = <<>>

\* C2: DELETE /questions/{id} with an id that is not in the store when the
\* view looks it up returns the 422 envelope {success:false, error:422,
\* message:"unprocessable"}, never 404, and the request changes no stored
\* question.
C2_DeleteUnknownIs422 ==
    \A t \in Threads :
        (Served(t, "DELETE /questions")
         /\ req[t].id \notin Ids(ReadAt(t, 88))) =>
            /\ resp[t] = Envelope422
            /\ wrote[t] = <<>>

\* C2 witness: an unknown id was deleted from a table that has rows
C2_Witness ==
    \E t \in Threads :
        /\ Served(t, "DELETE /questions")
        /\ req[t].id \notin Ids(ReadAt(t, 88))
        /\ ReadAt(t, 88) # {}
        /\ resp[t].status = 422

\* C3: POST /questions with no truthy searchTerm (absent, null or "") and
\* one of question, answer, category, difficulty missing or empty returns
\* 422 and creates no row: the request does not write to the store.
C3_MissingFieldIs422 ==
    \A t \in Threads :
        (/\ Served(t, "POST /questions")
         /\ NoSearchTerm(req[t].body)
         /\ \E k \in {"question", "answer", "category", "difficulty"} :
                ~Given(req[t].body[k])) =>
            /\ resp[t].status = 422
            /\ resp[t].success = FALSE
            /\ wrote[t] = <<>>
            /\ reads[t] = <<>>

\* C3 witness: a body that holds only searchTerm = "" was answered 422 on a
\* table that has rows
C3_Witness ==
    \E t \in Threads :
        /\ Served(t, "POST /questions")
        /\ req[t].body = WithSearch(NoFields, JStr(<<>>))
        /\ resp[t].status = 422
        /\ questions # {}

\* the candidate set of C4, from the request of thread t and the table as
\* its query found it
C4Candidates(t) ==
    LET prev == IF req[t].body.previous_questions = Absent
                THEN {}
                ELSE ListItems(req[t].body.previous_questions[2])
        sel == req[t].body.quiz_category
    IN  {q \in ReadAt(t, 202) :
            /\ q.id \notin prev
            /\ (sel \notin {Absent, JNull} /\ sel[2] # 0)
                   => q.category = sel[2]}

\* C4: POST /quizzes answers {success:true, question:null} exactly when no
\* stored question is left that is not in previous_questions and, when a
\* category with a non-zero id is selected, is of that category; otherwise
\* the question it returns is one of those; the request does not write to
\* the store.
C4_QuizDrawsFromCandidates ==
    \A t \in Threads :
        Served(t, "POST /quizzes") =>
            /\ resp[t].status = 200
            /\ resp[t].success
            /\ (resp[t].question = <<>>) <=> (C4Candidates(t) = {})
            /\ resp[t].question # <<>> =>
                   \E q \in C4Candidates(t) : resp[t].question[1] = format(q)
            /\ wrote[t] = <<>>

\* C4 witness: category 2 is selected, previous_questions holds its only
\* question, other questions are stored, and null came back
C4_Witness ==
    \E t \in Threads :
        /\ Served(t, "POST /quizzes")
        /\ req[t].body.quiz_category = JObjId(2)
        /\ req[t].body.previous_questions = JList(<<2>>)
        /\ \E q \in ReadAt(t, 202) : q.category = 2 /\ q.id = 2
        /\ Cardinality(ReadAt(t, 202)) > 1
        /\ resp[t].question = <<>>

\* C5 for the request of thread t; the list is the table as line 64 read
\* it, the number of stored questions is taken when line 76 counts them
C5For(t) ==
    LET page == RequestedPage(Formatted(OrderById(ReadAt(t, 64))),
                              PageNumber(req[t].page))
    IN  /\ (resp[t] = Envelope404) <=> (page = <<>>)
        /\ page # <<>> =>
               /\ resp[t].status = 200
               /\ resp[t].success
               /\ resp[t].questions = page
               /\ AscendingIds(resp[t].questions)
               /\ resp[t].total_questions = Cardinality(ReadAt(t, 76))
               /\ resp[t].current_category = 1

\* C5: GET /questions?page=N returns the 404 envelope exactly when page N of
\* the id-ordered question list has no item; otherwise success with that
\* page's questions in ascending id order, total_questions the number of
\* stored questions and current_category 1.
C5_QuestionsPageOr404 ==
    \A t \in Threads : Served(t, "GET /questions") => C5For(t)

\* C5, for the pages where it holds: N >= 0, absent or not a number
C5_QuestionsPageOr404FromZero ==
    \A t \in Threads :
        (Served(t, "GET /questions") /\ PageNumber(req[t].page) >= 0)
            => C5For(t)

\* text contains term, letter case ignored
ContainsIgnoringCase(text, term) ==
    \E i \in 0..(Len(text) - Len(term)) :
        \A k \in 1..Len(term) : Lower(text[i + k]) = Lower(term[k])

\* the questions of rows whose text contains the searchTerm of thread t
C6Matches(t, rows) ==
    {q \in rows : ContainsIgnoringCase(q.question, req[t].body.searchTerm[2])}

\* C6 for the request of thread t; the page is cut from the matches line
\* 132 found, the count is of the matches line 138 found
C6For(t) ==
    /\ resp[t].status = 200
    /\ resp[t].success
    /\ resp[t].questions =
           RequestedPage(Formatted(OrderById(C6Matches(t, ReadAt(t, 132)))),
                         PageNumber(req[t].page))
    /\ resp[t].total_questions = Cardinality(C6Matches(t, ReadAt(t, 138)))
    /\ wrote[t] = <<>>

\* C6: POST /questions with a truthy searchTerm searches and never creates:
\* the questions returned are the requested page of the id-ordered
\* questions whose text contains the term case-insensitively,
\* total_questions is the number of all of them, and the request does not
\* write to the store.
C6_SearchReturnsMatches ==
    \A t \in Threads :
        (Served(t, "POST /questions") /\ ~NoSearchTerm(req[t].body))
            => C6For(t)

\* C6, for the requests where it holds: a term without % and _ and a page
\* N >= 0, absent or not a number
C6_SearchReturnsMatchesPlainTerm ==
    \A t \in Threads :
        (/\ Served(t, "POST /questions") /\ ~NoSearchTerm(req[t].body)
         /\ \A k \in 1..Len(req[t].body.searchTerm[2]) :
                req[t].body.searchTerm[2][k] \notin {"%", "_"}
         /\ PageNumber(req[t].page) >= 0) => C6For(t)

\* C7 for the request of thread t; the page is cut from the questions of
\* the category line 178 found, the count is of those line 184 found
C7For(t) ==
    LET exists == \E c \in categories : c.id = req[t].id
        matches(rows) == {q \in rows : q.category = req[t].id}
    IN  /\ (resp[t] = Envelope404) <=> ~exists
        /\ exists =>
               /\ resp[t].status = 200
               /\ resp[t].success
               /\ resp[t].questions =
                      RequestedPage(
                          Formatted(OrderById(matches(ReadAt(t, 178)))),
                          PageNumber(req[t].page))
               /\ AscendingIds(resp[t].questions)
               /\ resp[t].total_questions =
                      Cardinality(matches(ReadAt(t, 184)))
        /\ wrote[t] = <<>>

\* C7: GET /categories/{id}/questions returns the 404 envelope if and only
\* if no category has that id; for a category that exists, success with the
\* requested page of the id-ordered questions of that category and
\* total_questions the number of all of them (an empty list when it has
\* none).
C7_CategoryQuestionsOr404 ==
    \A t \in Threads :
        Served(t, "GET /categories/id/questions") => C7For(t)

\* C7, for the pages where it holds: N >= 0, absent or not a number
C7_CategoryQuestionsOr404FromZero ==
    \A t \in Threads :
        (Served(t, "GET /categories/id/questions")
         /\ PageNumber(req[t].page) >= 0) => C7For(t)

\* what C9 is about: thread t has answered a POST /questions with no truthy
\* searchTerm and the four fields given
C9Created(t) ==
    /\ Served(t, "POST /questions")
    /\ NoSearchTerm(req[t].body)
    /\ \A k \in {"question", "answer", "category", "difficulty"} :
           Given(req[t].body[k])

\* the request of thread t wrote once: it inserted one question under an id
\* that was not in use, with the fields of the body, and created is that id
C9Inserted(t) ==
    /\ resp[t].status = 200
    /\ resp[t].success
    /\ Len(wrote[t]) = 1
    /\ LET w == wrote[t][1]
       IN  /\ w.kind = "insert"
           /\ w.row.id \notin Ids(w.before)
           /\ ReadAt(t, 149) = w.before \cup {w.row}
           /\ resp[t].created = w.row.id
           /\ w.row.question = req[t].body.question[2]
           /\ w.row.answer = req[t].body.answer[2]
           /\ w.row.category = req[t].body.category[2]
           /\ w.row.difficulty = req[t].body.difficulty[2]

\* no other request changed the questions between the insert of thread t
\* and its two reads
C9Undisturbed(t) ==
    ReadAt(t, 151) = ReadAt(t, 149) /\ ReadAt(t, 159) = ReadAt(t, 149)

\* C9 as stated: the response carries the first page of all questions as
\* they are after the insert and total_questions is the previous count plus
\* one, whatever page parameter the request has.
C9_CreateReturnsFirstPage ==
    \A t \in Threads :
        C9Created(t) =>
            /\ C9Inserted(t)
            /\ resp[t].questions =
                   RequestedPage(Formatted(OrderById(ReadAt(t, 149))), 1)
            /\ resp[t].total_questions = Cardinality(wrote[t][1].before) + 1

\* C9 amended: the response carries the slice paginate_questions takes, for
\* the request's page parameter, of all questions as line 151 reads them
\* after the insert (the questions at offsets (p-1)*10 .. (p-1)*10+9 for a
\* page p >= 1, p = 1 when the parameter is absent or not a number), and
\* total_questions is the number of questions line 159 counts; when no
\* other request changes the questions in between, these are the requested
\* page of the questions as they are after the insert and the previous
\* count plus one.
C9_CreateReturnsRequestedPage ==
    \A t \in Threads :
        C9Created(t) =>
            /\ C9Inserted(t)
            /\ resp[t].questions =
                   paginate_questions(req[t].page, OrderById(ReadAt(t, 151)))
            /\ PageNumber(req[t].page) >= 1 =>
                   resp[t].questions =
                       RequestedPage(Formatted(OrderById(ReadAt(t, 151))),
                                     PageNumber(req[t].page))
            /\ resp[t].total_questions = Cardinality(ReadAt(t, 159))
            /\ C9Undisturbed(t) =>
                   /\ resp[t].total_questions =
                          Cardinality(wrote[t][1].before) + 1
                   /\ PageNumber(req[t].page) = 1 =>
                          resp[t].questions =
                              RequestedPage(
                                  Formatted(OrderById(ReadAt(t, 149))), 1)

\* C9 witness: a question was created with ?page=2 on a table of 13 and the
\* response holds the 4 questions of page 2
C9_Witness ==
    \E t \in Threads :
        /\ C9Created(t)
        /\ req[t].page = JInt(2)
        /\ Cardinality(wrote[t][1].before) = 13
        /\ C9Undisturbed(t)
        /\ Len(resp[t].questions) = 4
        /\ resp[t].questions[1].id = 11

\* the questions a session is to be given: those of the selected category,
\* all of them when the selector is absent, null or has id 0
SessionQuestions ==
    IF session.quiz_category \in {Absent, JNull} \/ session.quiz_category[2] = 0
    THEN questions
    ELSE {q \in questions : q.category = session.quiz_category[2]}

\* C10: a client that starts with previous_questions empty and appends each
\* question it is given is never given a question twice, is given only
\* questions of the selected set, and eventually receives null, having been
\* given every question of the set exactly once.
C10_QuizSessionCompletes ==
    /\ [](session.active =>
            LET prev == session.previous_questions
            IN  /\ \A i, j \in 1..Len(prev) : i # j => prev[i] # prev[j]
                /\ ListItems(prev) \subseteq Ids(SessionQuestions)
                /\ session.finished =>
                       /\ ListItems(prev) = Ids(SessionQuestions)
                       /\ Len(prev) = Cardinality(SessionQuestions))
    /\ <>(session.active /\ session.finished)

\* C10 witness: a session on category 1 ended after both of its questions,
\* with questions of other categories stored
C10_Witness ==
    /\ session.active
    /\ session.finished
    /\ session.quiz_category = JObjId(1)
    /\ Len(session.previous_questions) = 2
    /\ Cardinality(questions) = 4

====
